---- MODULE Spec2Model ----
(***************************************************************************)
(* Stock reservation and payment confirmation of market_link.              *)
(*                                                                         *)
(*   orders/utils.py     try_reserve_stock, release_stock                  *)
(*   orders/models.py    RepairOrder.mark_as_paid                          *)
(*   payments/utils.py   handle_payment_intent_succeeded                   *)
(*   payments/tasks.py   send_invoice_and_start_processing                 *)
(*                                                                         *)
(*   orders/serializers.py  RepairOrderCreateSerializer                     *)
(*   payments/views.py   stripe_webhook_view                               *)
(*   services/views.py   UpdateDeleteServiceVariantView.partial_update      *)
(*                                                                         *)
(* Every invocation of a function is a process; one action is one          *)
(* statement that touches the shared stores (cache, database, broker).     *)
(* The database is modelled at READ COMMITTED with row locks: a write or a *)
(* select_for_update takes the row's lock until the transaction ends, and  *)
(* other processes only see committed values.                              *)
(***************************************************************************)
EXTENDS Integers, FiniteSets, Sequences, TLC

(* ---------------------------- bounds ----------------------------------- *)
NumReservers == 2      \* concurrent try_reserve_stock invocations
NumReleasers == 1      \* concurrent release_stock invocations
MaxStock     == 2      \* largest initial stock of a variant
MaxExpiries  == 1      \* lock entries that run out of TTL in one run
NumHandlers  == 2      \* concurrent handle_payment_intent_succeeded calls
NumContenders == 3     \* try_reserve_stock invocations contending for one variant's lock
NumUpdaters  == 1      \* concurrent PATCH /api/variants/{id}/ requests
MaxCrashes   == 1      \* try_reserve_stock invocations that die while holding the lock
NumWorkers   == 2      \* concurrent runs of send_invoice_and_start_processing

Variants  == {"v1", "v2"}
Reservers == 1..NumReservers
Releasers == 101..(100 + NumReleasers)
Contenders == 1..NumContenders
Updaters  == 201..(200 + NumUpdaters)
Callers   == Reservers \cup Contenders    \* every try_reserve_stock invocation
StockProcs == Callers \cup Releasers \cup Updaters
NoHolder  == 0         \* no row lock holder / no cache entry
NoField   == -1        \* the PATCH body has no "stock" field

Handlers  == 1..NumHandlers
Workers   == 301..(300 + NumWorkers)
Orders    == {"o1"}

VARIABLES
  \* ---- services.ServiceVariant rows and the cache (orders/utils.py) ----
  stock,          \* [Variants -> Int]   committed ServiceVariant.stock
  variantRowLock, \* [Variants -> proc]  holder of the row lock (select_for_update)
  cache,          \* [Variants -> token] value stored under stock_lock:{variant_id}
  spc,            \* [StockProcs -> label] position of each invocation
  variant_id,     \* [StockProcs -> Variants] argument of the invocation
  variant_stock,  \* [StockProcs -> Int] variant.stock of the instance read in the transaction
  lock_value,     \* [Callers -> token] result of cache.get in the finally block
  raised,         \* [Callers -> BOOLEAN] an exception is propagating out of the inner try
  reserved,       \* [Callers -> result] what try_reserve_stock returned
  \* ---- history variables of the stock part ----
  initStock,      \* [Variants -> Int] stock at the start
  decrements,     \* [Variants -> Nat] committed decrements
  increments,     \* [Variants -> Nat] committed increments
  removedForeign, \* [Callers -> BOOLEAN] the invocation deleted an entry holding another token
  ttlExpired,     \* Nat: lock entries that expired by TTL so far
  request_data,   \* [Updaters -> stock or NoField] the stock field of the PATCH body
  \* ---- orders.RepairOrder, payments.PaymentEvent and the broker ----
  orderStatus,    \* [Orders -> Status] committed RepairOrder.status
  orderRowLock,   \* [Orders -> proc] transaction holding the order row after its UPDATE
  paymentEvents,  \* set of committed PaymentEvent rows
  queue,          \* [Orders -> Nat] send_invoice_and_start_processing messages in the broker
  hpc,            \* [Handlers -> label] position of each webhook delivery
  event,          \* [Handlers -> event] the Stripe event delivered
  order_status,   \* [Handlers -> Status] order.status of the instance fetched at line 107
  result,         \* [Handlers -> outcome] what the handler returned
  \* ---- history variables of the payment part ----
  enqueued,       \* [Handlers -> Nat] follow-ups this delivery put on the broker
  delayFailed,    \* [Handlers -> BOOLEAN] .delay() raised in this delivery
  wroteOrder,     \* [Handlers -> BOOLEAN] this delivery committed a status write
  finishedBefore, \* [Handlers -> SUBSET Handlers] deliveries that had returned when this one began
  paidCount,      \* [Orders -> Nat] committed mark_as_paid() applications
  \* ---- POST /api/orders/ (orders/serializers.py) ----
  opc,            \* [Callers -> label] position of each order-creation request
  orders,         \* [Callers -> "none" or Status] status of the RepairOrder the request created
  \* ---- POST /api/webhooks/payment/ (payments/views.py) ----
  webhook_secret, \* BOOLEAN: STRIPE_WEBHOOK_SECRET is configured
  signature_ok,   \* [Handlers -> BOOLEAN] construct_event accepts payload and signature
  event_type,     \* [Handlers -> EventTypes] event['type'] of the request
  response,       \* [Handlers -> Int] HTTP status answered, 0 while none
  \* ---- the Celery workers (payments/tasks.py) ----
  task            \* [Workers -> run] each run of the task: position, argument, outcome

stockVars == <<stock, variantRowLock, cache, spc, variant_id, variant_stock,
               lock_value, raised, reserved, initStock, decrements,
               increments, removedForeign, ttlExpired, request_data>>

payVars == <<orderStatus, orderRowLock, paymentEvents, queue, hpc, event,
             order_status, result, enqueued, delayFailed, wroteOrder,
             finishedBefore, paidCount>>

orderVars == <<opc, orders>>

viewVars == <<webhook_secret, signature_ok, event_type, response>>

taskVars == <<task>>

vars == <<stockVars, payVars, orderVars, viewVars, taskVars>>

(* -------------------- orders/utils.py: the lock key -------------------- *)
\* mutant: one key for every variant
get_stock_lock_key_shared(v) == <<"stock_lock", "v1">>

\* get_stock_lock_key: one cache key per variant id
get_stock_lock_key(v) == <<"stock_lock", v>>

\* the variant whose lock key is k
KeyVariant(k) == k[2]

\* lock_id = str(uuid.uuid4()): a fresh token per invocation
lock_id(p) == p

\* value stored under a key, NoHolder when absent
cache_get(k) == cache[KeyVariant(k)]

(* -------------------- try_reserve_stock -------------------------------- *)
\* mutant: a failed acquisition runs the cleanup of the except branch
try_reserve_stock_add_cleanup(p) ==
  /\ spc[p] = "add"
  /\ LET v == variant_id[p] IN
       IF cache[v] = NoHolder
         THEN /\ cache' = [cache EXCEPT ![v] = lock_id(p)]
              /\ spc' = [spc EXCEPT ![p] = "select"]
              /\ UNCHANGED <<reserved, removedForeign>>
         ELSE /\ reserved' = [reserved EXCEPT ![p] = "lock_unavailable"]
              /\ spc' = [spc EXCEPT ![p] = "done"]
              /\ cache' = [cache EXCEPT ![v] = NoHolder]
              /\ removedForeign' = [removedForeign EXCEPT ![p] = TRUE]
  /\ UNCHANGED <<stock, variantRowLock, variant_id, variant_stock, lock_value,
                 raised, initStock, decrements, increments, ttlExpired,
                 payVars, taskVars, orderVars, viewVars, request_data>>

\* line 45: cache.add(lock_key, lock_id, timeout), atomic set-if-absent
try_reserve_stock_add(p) ==
  /\ spc[p] = "add"
  /\ LET k == get_stock_lock_key(variant_id[p]) IN
       IF cache_get(k) = NoHolder
         THEN /\ cache' = [cache EXCEPT ![KeyVariant(k)] = lock_id(p)]
              /\ spc' = [spc EXCEPT ![p] = "select"]
              /\ UNCHANGED reserved
         ELSE /\ reserved' = [reserved EXCEPT ![p] = "lock_unavailable"]
              /\ spc' = [spc EXCEPT ![p] = "done"]
              /\ UNCHANGED cache
  /\ UNCHANGED <<stock, variantRowLock, variant_id, variant_stock, lock_value,
                 raised, initStock, decrements, increments, removedForeign,
                 ttlExpired,
                 payVars, taskVars, orderVars, viewVars, request_data>>

\* mutant: a plain get(), which takes no row lock
RowLockFree_unlocked(v, p) == TRUE

\* the row lock select_for_update needs: the row is not locked by another
\* transaction
RowLockFree(v, p) == variantRowLock[v] = NoHolder

\* line 53: ServiceVariant.objects.select_for_update().get(id=variant_id);
\* blocks while another transaction holds the row
try_reserve_stock_select(p) ==
  /\ spc[p] = "select"
  /\ RowLockFree(variant_id[p], p)
  /\ variantRowLock' = [variantRowLock EXCEPT ![variant_id[p]] = p]
  /\ variant_stock' = [variant_stock EXCEPT ![p] = stock[variant_id[p]]]
  /\ spc' = [spc EXCEPT ![p] = "update"]
  /\ UNCHANGED <<stock, cache, variant_id, lock_value, raised, reserved,
                 initStock, decrements, increments, removedForeign, ttlExpired,
                 payVars, taskVars, orderVars, viewVars, request_data>>

\* line 53 raising (DoesNotExist, database error): the transaction rolls
\* back with nothing written and the exception leaves the inner try
try_reserve_stock_select_raises(p) ==
  /\ spc[p] = "select"
  /\ raised' = [raised EXCEPT ![p] = TRUE]
  /\ spc' = [spc EXCEPT ![p] = "finally_get"]
  /\ UNCHANGED <<stock, variantRowLock, cache, variant_id, variant_stock,
                 lock_value, reserved, initStock, decrements, increments,
                 removedForeign, ttlExpired,
                 payVars, taskVars, orderVars, viewVars, request_data>>

\* mutant: the guard lets an empty stock through
HasStock_offByOne(n) == n >= 0

\* line 54: the guard of the decrement
HasStock(n) == n > 0

\* lines 54-61: decrement and commit, or StockExhausted; the row lock is
\* released when the atomic block ends
try_reserve_stock_update(p) ==
  /\ spc[p] = "update"
  /\ LET v == variant_id[p] IN
       /\ IF HasStock(variant_stock[p])
            THEN /\ stock' = [stock EXCEPT ![v] = variant_stock[p] - 1]
                 /\ variant_stock' = [variant_stock EXCEPT ![p] = variant_stock[p] - 1]
                 /\ decrements' = [decrements EXCEPT ![v] = @ + 1]
                 /\ reserved' = [reserved EXCEPT ![p] = "reserved"]
            ELSE /\ reserved' = [reserved EXCEPT ![p] = "stock_exhausted"]
                 /\ UNCHANGED <<stock, variant_stock, decrements>>
       /\ variantRowLock' = [variantRowLock EXCEPT ![v] = IF @ = p THEN NoHolder ELSE @]
  /\ spc' = [spc EXCEPT ![p] = "finally_get"]
  /\ UNCHANGED <<cache, variant_id, lock_value, raised, initStock, increments,
                 removedForeign, ttlExpired,
                 payVars, taskVars, orderVars, viewVars, request_data>>

\* mutant: the decrement is committed before the exception is raised
try_reserve_stock_update_raises_committed(p) ==
  /\ spc[p] = "update"
  /\ HasStock(variant_stock[p])
  /\ stock' = [stock EXCEPT ![variant_id[p]] = variant_stock[p] - 1]
  /\ variantRowLock' = [variantRowLock EXCEPT ![variant_id[p]] = IF @ = p THEN NoHolder ELSE @]
  /\ raised' = [raised EXCEPT ![p] = TRUE]
  /\ spc' = [spc EXCEPT ![p] = "finally_get"]
  /\ UNCHANGED <<cache, variant_id, variant_stock, lock_value, reserved,
                 initStock, decrements, increments, removedForeign, ttlExpired,
                 payVars, taskVars, orderVars, viewVars, request_data>>

\* line 56 raising (the write or the commit fails): rollback, stock unchanged
try_reserve_stock_update_raises(p) ==
  /\ spc[p] = "update"
  /\ HasStock(variant_stock[p])
  /\ variantRowLock' = [variantRowLock EXCEPT ![variant_id[p]] = IF @ = p THEN NoHolder ELSE @]
  /\ raised' = [raised EXCEPT ![p] = TRUE]
  /\ spc' = [spc EXCEPT ![p] = "finally_get"]
  /\ UNCHANGED <<stock, cache, variant_id, variant_stock, lock_value, reserved,
                 initStock, decrements, increments, removedForeign, ttlExpired,
                 payVars, taskVars, orderVars, viewVars, request_data>>

\* line 64: lock_value = cache.get(lock_key)
try_reserve_stock_finally_get(p) ==
  /\ spc[p] = "finally_get"
  /\ lock_value' = [lock_value EXCEPT ![p] = cache_get(get_stock_lock_key(variant_id[p]))]
  /\ spc' = [spc EXCEPT ![p] = "finally_delete"]
  /\ UNCHANGED <<stock, variantRowLock, cache, variant_id, variant_stock,
                 raised, reserved, initStock, decrements, increments,
                 removedForeign, ttlExpired,
                 payVars, taskVars, orderVars, viewVars, request_data>>

\* mutant: the comparison never succeeds
IsOwner_never(val, p) == FALSE

\* line 65: lock_value == lock_id
IsOwner(val, p) == val = lock_id(p)

\* an entry is stored under v's key and its token is not p's
ForeignEntry(v, p) == cache[v] # NoHolder /\ cache[v] # lock_id(p)

\* lines 65-66: if lock_value == lock_id: cache.delete(lock_key); then the
\* function returns, or the pending exception reaches the outer except
try_reserve_stock_finally_delete(p) ==
  /\ spc[p] = "finally_delete"
  /\ LET v == variant_id[p] IN
       IF IsOwner(lock_value[p], p)
         THEN /\ cache' = [cache EXCEPT ![v] = NoHolder]
              /\ removedForeign' = [removedForeign EXCEPT ![p] = @ \/ ForeignEntry(v, p)]
         ELSE UNCHANGED <<cache, removedForeign>>
  /\ spc' = [spc EXCEPT ![p] = IF raised[p] THEN "except_delete" ELSE "done"]
  /\ lock_value' = [lock_value EXCEPT ![p] = NoHolder]
  /\ variant_stock' = [variant_stock EXCEPT ![p] = 0]
  /\ UNCHANGED <<stock, variantRowLock, variant_id,
                 raised, reserved, initStock, decrements, increments, ttlExpired,
                 payVars, taskVars, orderVars, viewVars, request_data>>

\* lines 67-71: except Exception: cache.delete(lock_key); return False
try_reserve_stock_except_delete(p) ==
  /\ spc[p] = "except_delete"
  /\ LET v == variant_id[p] IN
       /\ cache' = [cache EXCEPT ![v] = NoHolder]
       /\ removedForeign' = [removedForeign EXCEPT ![p] = @ \/ ForeignEntry(v, p)]
  /\ reserved' = [reserved EXCEPT ![p] = "error"]
  /\ spc' = [spc EXCEPT ![p] = "done"]
  /\ UNCHANGED <<stock, variantRowLock, variant_id, variant_stock, lock_value,
                 raised, initStock, decrements, increments, ttlExpired,
                 payVars, taskVars, orderVars, viewVars, request_data>>

try_reserve_stock(p) ==
  \/ try_reserve_stock_add(p)
  \/ try_reserve_stock_select(p)
  \/ try_reserve_stock_select_raises(p)
  \/ try_reserve_stock_update(p)
  \/ try_reserve_stock_update_raises(p)
  \/ try_reserve_stock_finally_get(p)
  \/ try_reserve_stock_finally_delete(p)
  \/ try_reserve_stock_except_delete(p)

\* line 45, the timeout argument: the cache drops the entry when its TTL
\* runs out, whatever its holder is doing
cache_expire(v) ==
  /\ cache[v] # NoHolder
  /\ ttlExpired < MaxExpiries
  /\ cache' = [cache EXCEPT ![v] = NoHolder]
  /\ ttlExpired' = ttlExpired + 1
  /\ UNCHANGED <<stock, variantRowLock, spc, variant_id, variant_stock,
                 lock_value, raised, reserved, initStock, decrements,
                 increments, removedForeign,
                 payVars, taskVars, orderVars, viewVars, request_data>>

\* mutant: the entry was stored without a timeout and never expires
cache_timeout_never(v) ==
  /\ FALSE
  /\ UNCHANGED vars

\* line 45, the timeout argument, as cache_expire, with the expiries counted
\* up to MaxExpiries only: every entry runs out of TTL
cache_timeout(v) ==
  /\ cache[v] # NoHolder
  /\ cache' = [cache EXCEPT ![v] = NoHolder]
  /\ ttlExpired' = IF ttlExpired < MaxExpiries THEN ttlExpired + 1 ELSE ttlExpired
  /\ UNCHANGED <<stock, variantRowLock, spc, variant_id, variant_stock,
                 lock_value, raised, reserved, initStock, decrements,
                 increments, removedForeign,
                 payVars, taskVars, orderVars, viewVars, request_data>>

\* the invocations that died
Crashed == {p \in Callers : spc[p] = "crashed"}

\* lines 45-66: the process dies after cache.add succeeded and before its
\* cache.delete: no finally block runs, the entry stays; the database rolls
\* the open transaction back when the connection drops
try_reserve_stock_crash(p) ==
  /\ spc[p] \in {"select", "update", "finally_get", "finally_delete"}
  /\ Cardinality(Crashed) < MaxCrashes
  /\ spc' = [spc EXCEPT ![p] = "crashed"]
  /\ variantRowLock' = [variantRowLock EXCEPT ![variant_id[p]] = IF @ = p THEN NoHolder ELSE @]
  /\ variant_stock' = [variant_stock EXCEPT ![p] = 0]
  /\ lock_value' = [lock_value EXCEPT ![p] = NoHolder]
  /\ UNCHANGED <<stock, cache, variant_id, raised, reserved, initStock,
                 decrements, increments, removedForeign, ttlExpired,
                 payVars, taskVars, orderVars, viewVars, request_data>>

\* line 15: a later request calls try_reserve_stock again for the variant
try_reserve_stock_again(p) ==
  /\ spc[p] = "done"
  /\ spc' = [spc EXCEPT ![p] = "add"]
  /\ reserved' = [reserved EXCEPT ![p] = "none"]
  /\ raised' = [raised EXCEPT ![p] = FALSE]
  /\ removedForeign' = [removedForeign EXCEPT ![p] = FALSE]
  /\ UNCHANGED <<stock, variantRowLock, cache, variant_id, variant_stock,
                 lock_value, initStock, decrements, increments, ttlExpired,
                 payVars, taskVars, orderVars, viewVars, request_data>>

(* -------------------- release_stock ------------------------------------ *)
\* line 86: select_for_update().get(id=variant_id)
release_stock_select(p) ==
  /\ spc[p] = "rselect"
  /\ RowLockFree(variant_id[p], p)
  /\ variantRowLock' = [variantRowLock EXCEPT ![variant_id[p]] = p]
  /\ variant_stock' = [variant_stock EXCEPT ![p] = stock[variant_id[p]]]
  /\ spc' = [spc EXCEPT ![p] = "rupdate"]
  /\ UNCHANGED <<stock, cache, variant_id, lock_value, raised, reserved,
                 initStock, decrements, increments, removedForeign, ttlExpired,
                 payVars, taskVars, orderVars, viewVars, request_data>>

\* mutant: the increment is applied twice
release_stock_update_twice(p) ==
  /\ spc[p] = "rupdate"
  /\ LET v == variant_id[p] IN
       /\ stock' = [stock EXCEPT ![v] = variant_stock[p] + 2]
       /\ variant_stock' = [variant_stock EXCEPT ![p] = 0]
       /\ increments' = [increments EXCEPT ![v] = @ + 1]
       /\ variantRowLock' = [variantRowLock EXCEPT ![v] = IF @ = p THEN NoHolder ELSE @]
  /\ spc' = [spc EXCEPT ![p] = "done"]
  /\ UNCHANGED <<cache, variant_id, lock_value, raised, reserved, initStock,
                 decrements, removedForeign, ttlExpired,
                 payVars, taskVars, orderVars, viewVars, request_data>>

\* lines 87-88: variant.stock += 1; save; commit
release_stock_update(p) ==
  /\ spc[p] = "rupdate"
  /\ LET v == variant_id[p] IN
       /\ stock' = [stock EXCEPT ![v] = variant_stock[p] + 1]
       /\ variant_stock' = [variant_stock EXCEPT ![p] = 0]
       /\ increments' = [increments EXCEPT ![v] = @ + 1]
       /\ variantRowLock' = [variantRowLock EXCEPT ![v] = IF @ = p THEN NoHolder ELSE @]
  /\ spc' = [spc EXCEPT ![p] = "done"]
  /\ UNCHANGED <<cache, variant_id, lock_value, raised, reserved, initStock,
                 decrements, removedForeign, ttlExpired,
                 payVars, taskVars, orderVars, viewVars, request_data>>

\* lines 90-91: any exception is logged and swallowed; the transaction
\* rolled back, so stock is unchanged
release_stock_raises(p) ==
  /\ spc[p] \in {"rselect", "rupdate"}
  /\ variantRowLock' = [variantRowLock EXCEPT ![variant_id[p]] = IF @ = p THEN NoHolder ELSE @]
  /\ variant_stock' = [variant_stock EXCEPT ![p] = 0]
  /\ spc' = [spc EXCEPT ![p] = "done"]
  /\ UNCHANGED <<stock, cache, variant_id, lock_value, raised,
                 reserved, initStock, decrements, increments, removedForeign,
                 ttlExpired,
                 payVars, taskVars, orderVars, viewVars, request_data>>

release_stock(p) ==
  \/ release_stock_select(p)
  \/ release_stock_update(p)
  \/ release_stock_raises(p)

(* -------------------- orders/serializers.py: POST /api/orders/ --------- *)
\* the stock fields every step of the request leaves alone
reserveState == <<stock, variantRowLock, cache, variant_id, variant_stock,
                  lock_value, raised, reserved, initStock, decrements,
                  increments, removedForeign, ttlExpired, request_data>>

\* lines 16-38: validate_variant_id reads the stock without a lock and
\* refuses an empty variant; otherwise create() calls try_reserve_stock
validate_variant_id(p) ==
  /\ opc[p] = "validate"
  /\ IF stock[variant_id[p]] <= 0
       THEN /\ opc' = [opc EXCEPT ![p] = "done"]
            /\ UNCHANGED spc
       ELSE /\ opc' = [opc EXCEPT ![p] = "reserving"]
            /\ spc' = [spc EXCEPT ![p] = "add"]
  /\ UNCHANGED <<reserveState, orders, payVars, taskVars, viewVars>>

\* mutant: the result of the reservation is ignored
ReservationOk_always(r) == TRUE

\* line 38: if not try_reserve_stock(variant.id): raise ValidationError
ReservationOk(r) == r = "reserved"

\* lines 38-48: try_reserve_stock has returned; a False raises
\* ValidationError, a True is followed by RepairOrder.objects.create with
\* status PENDING
create_order(p) ==
  /\ opc[p] = "reserving"
  /\ spc[p] = "done"
  /\ orders' = [orders EXCEPT ![p] = IF ReservationOk(reserved[p]) THEN "pending" ELSE @]
  /\ opc' = [opc EXCEPT ![p] = "done"]
  /\ UNCHANGED <<reserveState, spc, payVars, taskVars, viewVars>>

\* lines 38-41: the request dies between the committed decrement and the
\* INSERT of the order (process crash, database error)
create_order_lost(p) ==
  /\ opc[p] = "reserving"
  /\ spc[p] = "done"
  /\ reserved[p] = "reserved"
  /\ opc' = [opc EXCEPT ![p] = "lost"]
  /\ UNCHANGED <<reserveState, spc, orders, payVars, taskVars, viewVars>>

create(p) ==
  \/ validate_variant_id(p)
  \/ try_reserve_stock(p)
  \/ create_order(p)
  \/ create_order_lost(p)

(* -------------------- services/views.py: the vendor's PATCH ------------ *)
\* line 249: instance = self.get_object(), a plain read of the row
partial_update_get_object(u) ==
  /\ spc[u] = "uget"
  /\ variant_stock' = [variant_stock EXCEPT ![u] = stock[variant_id[u]]]
  /\ spc' = [spc EXCEPT ![u] = "usave"]
  /\ UNCHANGED <<stock, variantRowLock, cache, variant_id, lock_value, raised,
                 reserved, initStock, decrements, increments, removedForeign,
                 ttlExpired, payVars, taskVars, orderVars, viewVars, request_data>>

\* services/serializers.py line 11: "stock" is a writable field of
\* ServiceVariantSerializer, so the value saved is the one of the request
\* when it has one, else the one the instance was read with
SavedStock(u) ==
  IF request_data[u] # NoField THEN request_data[u] ELSE variant_stock[u]

\* lines 250-252: is_valid, then perform_update -> serializer.save() ->
\* instance.save(), an UPDATE of every column of the row in autocommit
\* (it waits for a transaction that holds the row)
partial_update_save(u) ==
  /\ spc[u] = "usave"
  /\ RowLockFree(variant_id[u], u)
  /\ stock' = [stock EXCEPT ![variant_id[u]] = SavedStock(u)]
  /\ variant_stock' = [variant_stock EXCEPT ![u] = 0]
  /\ spc' = [spc EXCEPT ![u] = "done"]
  /\ UNCHANGED <<variantRowLock, cache, variant_id, lock_value, raised,
                 reserved, initStock, decrements, increments, removedForeign,
                 ttlExpired, payVars, taskVars, orderVars, viewVars, request_data>>

partial_update(u) ==
  \/ partial_update_get_object(u)
  \/ partial_update_save(u)

(* -------------------- orders/models.py: RepairOrder -------------------- *)
Status == {"pending", "paid", "processing", "completed", "failed", "cancelled"}

\* RepairOrder.total_amount, a Decimal with two places, kept in hundredths
total_amount(o) == 1200

\* payments/utils.py line 118: amount_cents = int(order.total_amount * 100)
amount_cents(o) == total_amount(o)

\* mutant: only an overpayment counts as a mismatch
AmountMismatch_over(a, o) == a > amount_cents(o)

\* payments/utils.py line 119: intent['amount'] != amount_cents
AmountMismatch(a, o) == a # amount_cents(o)

\* RepairOrder.can_be_paid, on the status held by the instance
can_be_paid(st) == st = "pending"

(* -------------------- the Stripe events delivered ---------------------- *)
EventIds  == {"evt_1", "evt_2"}
NoOrderId == ""                      \* metadata without order_id
OrderIds  == Orders \cup {NoOrderId, "o9"}   \* "o9" matches no RepairOrder
Amounts   == {1000, 1200}            \* intent['amount'], in cents
Events    == [id : EventIds, order_id : OrderIds, amount : Amounts]

\* mutant: the pre-check never finds a row
EventExists_never(eid) == FALSE

\* PaymentEvent.objects.filter(event_id=event_id).exists()
EventExists(eid) == \E r \in paymentEvents : r.event_id = eid

\* the row PaymentEvent.objects.create(...) inserts for delivery h
PaymentEventRow(h, st) ==
  [pk |-> h, event_id |-> event[h].id, order |-> event[h].order_id, status |-> st]

\* mutant: event_id without unique=True
UniqueViolation_off(eid) == FALSE

\* PaymentEvent.event_id is unique=True: the insert of a second row with the
\* same event_id raises IntegrityError
UniqueViolation(eid) == \E r \in paymentEvents : r.event_id = eid

\* an uncommitted insert of the same event_id by another transaction makes
\* this insert wait for that transaction to end
InsertBlocked(h) ==
  \E g \in Handlers \ {h} : hpc[g] \in {"delay", "commit"} /\ event[g].id = event[h].id

(* -------------------- handle_payment_intent_succeeded ------------------ *)
\* mutant: the PROCESSED row is written outside the transaction and stays
AbortedRows_kept(h) == {PaymentEventRow(h, "processed")}

\* lines 139-140 and 162-164: what a transaction that ends in the except
\* branch leaves in the PaymentEvent table: it rolled back, so nothing
AbortedRows(h) == {}

Return(h, r) ==
  /\ result' = [result EXCEPT ![h] = r]
  /\ hpc' = [hpc EXCEPT ![h] = "done"]

\* mutant: the metadata is not checked
MissingOrderId_never(oid) == FALSE

\* line 102: if not order_id
MissingOrderId(oid) == oid = NoOrderId

\* lines 98-110: order_id from the metadata, then RepairOrder.objects.get
handle_get_order(h) ==
  /\ hpc[h] = "get"
  /\ finishedBefore' = [finishedBefore EXCEPT ![h] = {g \in Handlers : hpc[g] = "done"}]
  /\ IF MissingOrderId(event[h].order_id)
       THEN Return(h, "malformed") /\ UNCHANGED order_status
       ELSE IF event[h].order_id \notin Orders
         THEN Return(h, "not_found") /\ UNCHANGED order_status
         ELSE /\ order_status' = [order_status EXCEPT ![h] = orderStatus[event[h].order_id]]
              /\ hpc' = [hpc EXCEPT ![h] = "exists"]
              /\ UNCHANGED result
  /\ UNCHANGED <<stockVars, taskVars, orderVars, viewVars, orderStatus, orderRowLock, paymentEvents, queue,
                 event, enqueued, delayFailed, wroteOrder, paidCount>>

\* lines 112-119: the idempotency pre-check, then the amount comparison
handle_exists(h) ==
  /\ hpc[h] = "exists"
  /\ IF EventExists(event[h].id)
       THEN Return(h, "already_processed")
       ELSE /\ hpc' = [hpc EXCEPT ![h] =
                 IF AmountMismatch(event[h].amount, event[h].order_id)
                   THEN "create_failed" ELSE "mark_as_paid"]
            /\ UNCHANGED result
  /\ UNCHANGED <<stockVars, taskVars, orderVars, viewVars, orderStatus, orderRowLock, paymentEvents, queue,
                 event, order_status, enqueued, delayFailed, wroteOrder,
                 finishedBefore, paidCount>>

\* lines 126-136: PaymentEvent.objects.create(status='failed') in autocommit,
\* outside any try: an IntegrityError leaves the handler as an exception
handle_create_failed(h) ==
  /\ hpc[h] = "create_failed"
  /\ ~InsertBlocked(h)
  /\ IF UniqueViolation(event[h].id)
       THEN Return(h, "unhandled_integrity_error") /\ UNCHANGED paymentEvents
       ELSE /\ paymentEvents' = paymentEvents \cup {PaymentEventRow(h, "failed")}
            /\ Return(h, "amount_mismatch")
  /\ UNCHANGED <<stockVars, taskVars, orderVars, viewVars, orderStatus, orderRowLock, queue, event,
                 order_status, enqueued, delayFailed, wroteOrder,
                 finishedBefore, paidCount>>

\* line 141 with orders/models.py 41-46: mark_as_paid() checks the status of
\* the instance fetched at line 107, then UPDATEs the row inside the
\* transaction (the row stays locked until the transaction ends)
handle_mark_as_paid(h) ==
  /\ hpc[h] = "mark_as_paid"
  /\ LET o == event[h].order_id IN
       IF can_be_paid(order_status[h])
         THEN /\ orderRowLock[o] = NoHolder
              /\ orderRowLock' = [orderRowLock EXCEPT ![o] = h]
              /\ order_status' = [order_status EXCEPT ![h] = "paid"]
              /\ hpc' = [hpc EXCEPT ![h] = "create"]
              /\ UNCHANGED result
         ELSE /\ Return(h, "invalid_transition")
              /\ UNCHANGED <<orderRowLock, order_status>>
  /\ paymentEvents' = IF can_be_paid(order_status[h])
                        THEN paymentEvents
                        ELSE paymentEvents \cup AbortedRows(h)
  /\ UNCHANGED <<stockVars, taskVars, orderVars, viewVars, orderStatus, queue, event, enqueued,
                 delayFailed, wroteOrder, finishedBefore, paidCount>>

\* lines 144-152: PaymentEvent.objects.create(status='processed') inside the
\* transaction; IntegrityError rolls the UPDATE back (lines 162-164)
handle_create_processed(h) ==
  /\ hpc[h] = "create"
  /\ ~InsertBlocked(h)
  /\ IF UniqueViolation(event[h].id)
       THEN /\ orderRowLock' = [orderRowLock EXCEPT ![event[h].order_id] = NoHolder]
            /\ Return(h, "integrity_error")
       ELSE /\ hpc' = [hpc EXCEPT ![h] = "delay"]
            /\ UNCHANGED <<orderRowLock, result>>
  /\ UNCHANGED <<stockVars, taskVars, orderVars, viewVars, orderStatus, paymentEvents, queue, event,
                 order_status, enqueued, delayFailed, wroteOrder,
                 finishedBefore, paidCount>>

\* lines 157-158: send_invoice_and_start_processing.delay(order_id), still
\* inside the atomic block; the message is on the broker at once
handle_delay(h) ==
  /\ hpc[h] = "delay"
  /\ queue' = [queue EXCEPT ![event[h].order_id] = @ + 1]
  /\ enqueued' = [enqueued EXCEPT ![h] = @ + 1]
  /\ hpc' = [hpc EXCEPT ![h] = "commit"]
  /\ UNCHANGED <<stockVars, taskVars, orderVars, viewVars, orderStatus, orderRowLock, paymentEvents, event,
                 order_status, result, delayFailed, wroteOrder, finishedBefore,
                 paidCount>>

\* lines 157-164: .delay() raising (broker unreachable) is caught by the
\* except around the atomic block, which has rolled back by then
handle_delay_raises(h) ==
  /\ hpc[h] = "delay"
  /\ orderRowLock' = [orderRowLock EXCEPT ![event[h].order_id] = NoHolder]
  /\ delayFailed' = [delayFailed EXCEPT ![h] = TRUE]
  /\ Return(h, "delay_error")
  /\ paymentEvents' = paymentEvents \cup AbortedRows(h)
  /\ UNCHANGED <<stockVars, taskVars, orderVars, viewVars, orderStatus, queue, event,
                 order_status, enqueued, wroteOrder, finishedBefore, paidCount>>

\* line 160: the atomic block ends, the UPDATE and the INSERT commit
handle_commit(h) ==
  /\ hpc[h] = "commit"
  /\ LET o == event[h].order_id IN
       /\ orderStatus' = [orderStatus EXCEPT ![o] = order_status[h]]
       /\ paymentEvents' = paymentEvents \cup {PaymentEventRow(h, "processed")}
       /\ orderRowLock' = [orderRowLock EXCEPT ![o] = NoHolder]
       /\ paidCount' = [paidCount EXCEPT ![o] = @ + 1]
  /\ wroteOrder' = [wroteOrder EXCEPT ![h] = TRUE]
  /\ Return(h, "processed")
  /\ UNCHANGED <<stockVars, taskVars, orderVars, viewVars, queue, event, order_status, enqueued, delayFailed,
                 finishedBefore>>

handle_payment_intent_succeeded(h) ==
  \/ handle_get_order(h)
  \/ handle_exists(h)
  \/ handle_create_failed(h)
  \/ handle_mark_as_paid(h)
  \/ handle_create_processed(h)
  \/ handle_delay(h)
  \/ handle_delay_raises(h)
  \/ handle_commit(h)

\* the first element of the tuple the handler returns
accepted(r) == r \in {"processed", "already_processed"}

(* -------------------- payments/tasks.py -------------------------------- *)
\* mutant: the task stops after the mail and writes no status
send_invoice_and_start_processing_mail_only(o) ==
  /\ queue[o] > 0
  /\ orderRowLock[o] = NoHolder
  /\ queue' = [queue EXCEPT ![o] = @ - 1]
  /\ UNCHANGED <<stockVars, taskVars, orderVars, viewVars, orderStatus, orderRowLock,
                 paymentEvents, hpc, event, order_status, result, enqueued,
                 delayFailed, wroteOrder, finishedBefore, paidCount>>

\* send_invoice_and_start_processing: a worker takes one message; whether
\* or not send_mail raised, lines 57-58 write status = PROCESSING (the
\* UPDATE waits for a transaction holding the row)
send_invoice_and_start_processing(o) ==
  /\ queue[o] > 0
  /\ orderRowLock[o] = NoHolder
  /\ queue' = [queue EXCEPT ![o] = @ - 1]
  /\ orderStatus' = [orderStatus EXCEPT ![o] = "processing"]
  /\ UNCHANGED <<stockVars, taskVars, orderVars, viewVars, orderRowLock, paymentEvents, hpc, event,
                 order_status, result, enqueued, delayFailed, wroteOrder,
                 finishedBefore, paidCount>>

(* -------------------- payments/views.py: stripe_webhook_view ----------- *)
EventTypes ==
  {"payment_intent.succeeded", "payment_intent.payment_failed", "charge.refunded"}

HTTP_200_OK == 200
HTTP_400_BAD_REQUEST == 400
HTTP_500_INTERNAL_SERVER_ERROR == 500    \* Django's answer to an uncaught exception

\* payments/utils.py lines 61-80: None without a configured secret or when
\* construct_event rejects the payload or the signature, else the event
verify_stripe_webhook_signature(h) == webhook_secret /\ signature_ok[h]

\* lines 55-72: 200 when the handler's success flag is True, else 400; an
\* exception that leaves the handler becomes a 500
ResponseStatus(r) ==
  IF r = "unhandled_integrity_error" THEN HTTP_500_INTERNAL_SERVER_ERROR
  ELSE IF accepted(r) THEN HTTP_200_OK
  ELSE HTTP_400_BAD_REQUEST

\* mutant: the event is handled whatever the verification said
stripe_webhook_view_verify_skipped(h) ==
  /\ hpc[h] = "view"
  /\ hpc' = [hpc EXCEPT ![h] = "get"]
  /\ UNCHANGED <<stockVars, taskVars, orderVars, orderStatus, orderRowLock, paymentEvents,
                 queue, event, order_status, result, enqueued, delayFailed,
                 wroteOrder, finishedBefore, paidCount, webhook_secret,
                 signature_ok, event_type, response>>

\* mutant: every verified event is handed to the payment handler
stripe_webhook_view_verify_unrouted(h) ==
  /\ hpc[h] = "view"
  /\ IF ~verify_stripe_webhook_signature(h)
       THEN /\ response' = [response EXCEPT ![h] = HTTP_400_BAD_REQUEST]
            /\ hpc' = [hpc EXCEPT ![h] = "done"]
       ELSE /\ hpc' = [hpc EXCEPT ![h] = "get"]
            /\ UNCHANGED response
  /\ UNCHANGED <<stockVars, taskVars, orderVars, orderStatus, orderRowLock, paymentEvents,
                 queue, event, order_status, result, enqueued, delayFailed,
                 wroteOrder, finishedBefore, paidCount, webhook_secret,
                 signature_ok, event_type>>

\* lines 37-52 and 74-94: verify the signature, 400 when it fails; route on
\* the event type: the handler for payment_intent.succeeded, 200 for the rest
stripe_webhook_view_verify(h) ==
  /\ hpc[h] = "view"
  /\ IF ~verify_stripe_webhook_signature(h)
       THEN /\ response' = [response EXCEPT ![h] = HTTP_400_BAD_REQUEST]
            /\ hpc' = [hpc EXCEPT ![h] = "done"]
       ELSE IF event_type[h] = "payment_intent.succeeded"
         THEN /\ hpc' = [hpc EXCEPT ![h] = "get"]
              /\ UNCHANGED response
         ELSE /\ response' = [response EXCEPT ![h] = HTTP_200_OK]
              /\ hpc' = [hpc EXCEPT ![h] = "done"]
  /\ UNCHANGED <<stockVars, taskVars, orderVars, orderStatus, orderRowLock, paymentEvents,
                 queue, event, order_status, result, enqueued, delayFailed,
                 wroteOrder, finishedBefore, paidCount, webhook_secret,
                 signature_ok, event_type>>

\* lines 53-72: the handler has returned, the view answers
stripe_webhook_view_respond(h) ==
  /\ hpc[h] = "done"
  /\ result[h] # "none"
  /\ response[h] = 0
  /\ response' = [response EXCEPT ![h] = ResponseStatus(result[h])]
  /\ UNCHANGED <<stockVars, taskVars, orderVars, payVars, webhook_secret, signature_ok,
                 event_type>>

stripe_webhook_view(h) ==
  \/ stripe_webhook_view_verify(h)
  \/ handle_payment_intent_succeeded(h)
  \/ stripe_webhook_view_respond(h)

(* -------------------- payments/tasks.py, statement by statement -------- *)
\* the order ids a message can carry; "o9" matches no RepairOrder
TaskOrderIds == Orders \cup {"o9"}

\* a run that has not started
IdleRun == [pc |-> "idle", order_id |-> "o1", mail |-> "none", ret |-> "none",
            error |-> "none"]

\* the run of worker w ends with return value r after error e
TaskReturn(w, r, e) ==
  task' = [task EXCEPT ![w].pc = "done", ![w].ret = r, ![w].error = e]

\* lines 24 and 63-65: RepairOrder.objects.get(id=order_id); DoesNotExist
\* is logged and the task returns False
task_get(w) ==
  /\ task[w].pc = "get"
  /\ IF task[w].order_id \notin Orders
       THEN TaskReturn(w, "false", "does_not_exist")
       ELSE task' = [task EXCEPT ![w].pc = "send_mail"]
  /\ UNCHANGED <<stockVars, payVars, orderVars, viewVars>>

\* mutant: an exception of send_mail is not caught at line 53 and ends the
\* task in the outer handler
task_send_mail_uncaught(w) ==
  /\ task[w].pc = "send_mail"
  /\ \/ task' = [task EXCEPT ![w].pc = "save", ![w].mail = "sent"]
     \/ task' = [task EXCEPT ![w].pc = "done", ![w].mail = "failed",
                             ![w].ret = "false", ![w].error = "mail_failed"]
  /\ UNCHANGED <<stockVars, payVars, orderVars, viewVars>>

\* lines 44-54: send_mail(..., fail_silently=False) inside its own try: an
\* exception is logged and the task goes on
task_send_mail(w) ==
  /\ task[w].pc = "send_mail"
  /\ \E m \in {"sent", "failed"} :
       task' = [task EXCEPT ![w].pc = "save", ![w].mail = m]
  /\ UNCHANGED <<stockVars, payVars, orderVars, viewVars>>

\* lines 57-61: order.status = PROCESSING; save(update_fields=...); return
\* True (the UPDATE waits for a transaction holding the row)
task_save(w) ==
  /\ task[w].pc = "save"
  /\ orderRowLock[task[w].order_id] = NoHolder
  /\ orderStatus' = [orderStatus EXCEPT ![task[w].order_id] = "processing"]
  /\ TaskReturn(w, "true", "none")
  /\ UNCHANGED <<stockVars, orderVars, viewVars, orderRowLock, paymentEvents,
                 queue, hpc, event, order_status, result, enqueued, delayFailed,
                 wroteOrder, finishedBefore, paidCount>>

\* lines 66-68: any other exception (building the message, the UPDATE) is
\* logged and the task returns False with nothing written
task_raises(w) ==
  /\ task[w].pc \in {"send_mail", "save"}
  /\ TaskReturn(w, "false", IF task[w].pc = "save" THEN "save_failed" ELSE "message_failed")
  /\ UNCHANGED <<stockVars, payVars, orderVars, viewVars>>

task_run(w) ==
  \/ task_get(w)
  \/ task_send_mail(w)
  \/ task_save(w)
  \/ task_raises(w)

(* -------------------- quiescent halves --------------------------------- *)
\* no order-creation request in flight
NoOrderRequests ==
  /\ opc = [p \in Callers |-> "idle"]
  /\ orders = [p \in Callers |-> "none"]

\* the deliveries enter at the handler, not at the view
NoWebhookRequests ==
  /\ webhook_secret = TRUE
  /\ signature_ok = [h \in Handlers |-> TRUE]
  /\ event_type = [h \in Handlers |-> "payment_intent.succeeded"]
  /\ response = [h \in Handlers |-> 0]

\* no webhook delivery in flight
NoDeliveries ==
  /\ orderStatus = [o \in Orders |-> "pending"]
  /\ orderRowLock = [o \in Orders |-> NoHolder]
  /\ paymentEvents = {}
  /\ queue = [o \in Orders |-> 0]
  /\ hpc = [h \in Handlers |-> "idle"]
  /\ event = [h \in Handlers |-> [id |-> "evt_1", order_id |-> "o1", amount |-> 1200]]
  /\ order_status = [h \in Handlers |-> "pending"]
  /\ result = [h \in Handlers |-> "none"]
  /\ enqueued = [h \in Handlers |-> 0]
  /\ delayFailed = [h \in Handlers |-> FALSE]
  /\ wroteOrder = [h \in Handlers |-> FALSE]
  /\ finishedBefore = [h \in Handlers |-> {}]
  /\ paidCount = [o \in Orders |-> 0]
  /\ NoWebhookRequests

\* no worker is running the task
NoTasks == task = [w \in Workers |-> IdleRun]

\* no reservation or release in flight
NoReservations ==
  /\ stock = [v \in Variants |-> MaxStock]
  /\ initStock = stock
  /\ variantRowLock = [v \in Variants |-> NoHolder]
  /\ cache = [v \in Variants |-> NoHolder]
  /\ spc = [p \in StockProcs |-> "idle"]
  /\ variant_id = [p \in StockProcs |-> "v1"]
  /\ variant_stock = [p \in StockProcs |-> 0]
  /\ lock_value = [p \in Callers |-> NoHolder]
  /\ raised = [p \in Callers |-> FALSE]
  /\ reserved = [p \in Callers |-> "none"]
  /\ decrements = [v \in Variants |-> 0]
  /\ increments = [v \in Variants |-> 0]
  /\ removedForeign = [p \in Callers |-> FALSE]
  /\ ttlExpired = 0
  /\ request_data = [u \in Updaters |-> NoField]
  /\ NoOrderRequests

(* -------------------- the stock specification -------------------------- *)
\* where an invocation starts; "idle" for one that is never made
FirstLabel(p, active) ==
  IF p \notin active THEN "idle"
  ELSE IF p \in Callers THEN "add"
  ELSE IF p \in Releasers THEN "rselect"
  ELSE "uget"

InitStock ==
  /\ stock \in [Variants -> 0..MaxStock]
  /\ initStock = stock
  /\ variantRowLock = [v \in Variants |-> NoHolder]
  /\ cache = [v \in Variants |-> NoHolder]
  /\ spc = [p \in StockProcs |-> FirstLabel(p, Reservers \cup Releasers)]
  /\ variant_id \in [StockProcs -> Variants]
  /\ \A p \in StockProcs : spc[p] = "idle" => variant_id[p] = "v1"
  /\ variant_stock = [p \in StockProcs |-> 0]
  /\ lock_value = [p \in Callers |-> NoHolder]
  /\ raised = [p \in Callers |-> FALSE]
  /\ reserved = [p \in Callers |-> "none"]
  /\ decrements = [v \in Variants |-> 0]
  /\ increments = [v \in Variants |-> 0]
  /\ removedForeign = [p \in Callers |-> FALSE]
  /\ ttlExpired = 0
  /\ request_data = [u \in Updaters |-> NoField]
  /\ NoOrderRequests
  /\ NoDeliveries
  /\ NoTasks

NextStock ==
  \/ \E p \in Reservers : try_reserve_stock(p)
  \/ \E p \in Releasers : release_stock(p)
  \/ \E v \in Variants : cache_expire(v)

SpecStock == InitStock /\ [][NextStock]_vars

(* -------------------- contention for one variant's lock ---------------- *)
\* every invocation in `active` is made, on variant v1; nothing else runs
InitOn(active) ==
  /\ stock \in [Variants -> 0..MaxStock]
  /\ stock["v2"] = MaxStock
  /\ initStock = stock
  /\ variantRowLock = [v \in Variants |-> NoHolder]
  /\ cache = [v \in Variants |-> NoHolder]
  /\ spc = [p \in StockProcs |-> FirstLabel(p, active)]
  /\ variant_id = [p \in StockProcs |-> "v1"]
  /\ variant_stock = [p \in StockProcs |-> 0]
  /\ lock_value = [p \in Callers |-> NoHolder]
  /\ raised = [p \in Callers |-> FALSE]
  /\ reserved = [p \in Callers |-> "none"]
  /\ decrements = [v \in Variants |-> 0]
  /\ increments = [v \in Variants |-> 0]
  /\ removedForeign = [p \in Callers |-> FALSE]
  /\ ttlExpired = 0
  /\ NoOrderRequests
  /\ NoDeliveries
  /\ NoTasks

InitLock == InitOn(Contenders) /\ request_data = [u \in Updaters |-> NoField]

\* no lock entry expires and nothing but try_reserve_stock runs
NextLock == \E p \in Contenders : try_reserve_stock(p)

SpecLock == InitLock /\ [][NextLock]_vars

(* -------------------- reservations, releases and vendor updates -------- *)
InitVendor ==
  /\ InitOn(Reservers \cup Releasers \cup Updaters)
  /\ request_data \in [Updaters -> {NoField} \cup 0..MaxStock]

NextVendor ==
  \/ \E p \in Reservers : try_reserve_stock(p)
  \/ \E p \in Releasers : release_stock(p)
  \/ \E u \in Updaters : partial_update(u)

SpecVendor == InitVendor /\ [][NextVendor]_vars

(* -------------------- the payment specification ------------------------ *)
\* rows written by deliveries before the ones modelled: an order that has
\* been paid has the PROCESSED event that paid it
EarlierEvents(st) ==
  IF st \in {"pending", "cancelled"} THEN {}
  ELSE {[pk |-> 0, event_id |-> "evt_0", order |-> "o1", status |-> "processed"]}

InitPay ==
  /\ NoReservations
  /\ NoTasks
  /\ orderStatus \in [Orders -> Status]
  /\ orderRowLock = [o \in Orders |-> NoHolder]
  /\ paymentEvents = EarlierEvents(orderStatus["o1"])
  /\ queue = [o \in Orders |-> 0]
  /\ hpc = [h \in Handlers |-> "get"]
  /\ event \in [Handlers -> Events]
  /\ \A h, g \in Handlers : event[h].id = event[g].id => event[h] = event[g]
  /\ order_status = [h \in Handlers |-> "pending"]
  /\ result = [h \in Handlers |-> "none"]
  /\ enqueued = [h \in Handlers |-> 0]
  /\ delayFailed = [h \in Handlers |-> FALSE]
  /\ wroteOrder = [h \in Handlers |-> FALSE]
  /\ finishedBefore = [h \in Handlers |-> {}]
  /\ paidCount = [o \in Orders |-> 0]
  /\ NoWebhookRequests

NextPay ==
  \/ \E h \in Handlers : handle_payment_intent_succeeded(h)
  \/ \E o \in Orders : send_invoice_and_start_processing(o)

SpecPay == InitPay /\ [][NextPay]_vars

(* -------------------- a holder that dies ------------------------------- *)
InitCrash == InitOn(Reservers) /\ request_data = [u \in Updaters |-> NoField]

NextCrash ==
  \/ \E p \in Reservers : try_reserve_stock(p)
  \/ \E p \in Reservers : try_reserve_stock_crash(p)
  \/ \E p \in Reservers : try_reserve_stock_again(p)
  \/ \E v \in Variants : cache_timeout(v)

\* the cache drops every entry after its timeout; a live invocation takes
\* its next step; requests keep arriving
SpecCrash ==
  /\ InitCrash /\ [][NextCrash]_vars
  /\ \A v \in Variants : WF_vars(cache_timeout(v))
  /\ \A p \in Reservers : WF_vars(try_reserve_stock(p) \/ try_reserve_stock_again(p))

(* -------------------- payments with a running worker ------------------- *)
\* every delivery runs to its end and the worker takes every message
SpecPayLive ==
  /\ InitPay /\ [][NextPay]_vars
  /\ \A h \in Handlers : WF_vars(handle_payment_intent_succeeded(h))
  /\ \A o \in Orders : WF_vars(send_invoice_and_start_processing(o))

(* -------------------- the follow-up task alone ------------------------- *)
\* each worker has taken a message from the broker; no delivery is running
InitTask ==
  /\ NoReservations
  /\ orderStatus \in [Orders -> Status]
  /\ orderRowLock = [o \in Orders |-> NoHolder]
  /\ paymentEvents = EarlierEvents(orderStatus["o1"])
  /\ queue = [o \in Orders |-> 0]
  /\ hpc = [h \in Handlers |-> "idle"]
  /\ event = [h \in Handlers |-> [id |-> "evt_1", order_id |-> "o1", amount |-> 1200]]
  /\ order_status = [h \in Handlers |-> "pending"]
  /\ result = [h \in Handlers |-> "none"]
  /\ enqueued = [h \in Handlers |-> 0]
  /\ delayFailed = [h \in Handlers |-> FALSE]
  /\ wroteOrder = [h \in Handlers |-> FALSE]
  /\ finishedBefore = [h \in Handlers |-> {}]
  /\ paidCount = [o \in Orders |-> 0]
  /\ NoWebhookRequests
  /\ \E ids \in [Workers -> TaskOrderIds] :
       task = [w \in Workers |-> [IdleRun EXCEPT !.pc = "get", !.order_id = ids[w]]]

NextTask == \E w \in Workers : task_run(w)

SpecTask == InitTask /\ [][NextTask]_vars

(* -------------------- order creation ----------------------------------- *)
InitOrder ==
  /\ stock \in [Variants -> 0..MaxStock]
  /\ initStock = stock
  /\ variantRowLock = [v \in Variants |-> NoHolder]
  /\ cache = [v \in Variants |-> NoHolder]
  /\ spc = [p \in StockProcs |-> "idle"]
  /\ variant_id \in [StockProcs -> Variants]
  /\ \A p \in StockProcs \ Reservers : variant_id[p] = "v1"
  /\ variant_stock = [p \in StockProcs |-> 0]
  /\ lock_value = [p \in Callers |-> NoHolder]
  /\ raised = [p \in Callers |-> FALSE]
  /\ reserved = [p \in Callers |-> "none"]
  /\ decrements = [v \in Variants |-> 0]
  /\ increments = [v \in Variants |-> 0]
  /\ removedForeign = [p \in Callers |-> FALSE]
  /\ ttlExpired = 0
  /\ request_data = [u \in Updaters |-> NoField]
  /\ opc = [p \in Callers |-> IF p \in Reservers THEN "validate" ELSE "idle"]
  /\ orders = [p \in Callers |-> "none"]
  /\ NoDeliveries
  /\ NoTasks

NextOrder ==
  \/ \E p \in Reservers : create(p)
  \/ \E v \in Variants : cache_expire(v)

SpecOrder == InitOrder /\ [][NextOrder]_vars

(* -------------------- the webhook endpoint ----------------------------- *)
InitView ==
  /\ NoReservations
  /\ NoTasks
  /\ orderStatus \in [Orders -> Status]
  /\ orderRowLock = [o \in Orders |-> NoHolder]
  /\ paymentEvents = EarlierEvents(orderStatus["o1"])
  /\ queue = [o \in Orders |-> 0]
  /\ hpc = [h \in Handlers |-> "view"]
  /\ event \in [Handlers -> Events]
  /\ \A h, g \in Handlers : event[h].id = event[g].id => event[h] = event[g]
  /\ order_status = [h \in Handlers |-> "pending"]
  /\ result = [h \in Handlers |-> "none"]
  /\ enqueued = [h \in Handlers |-> 0]
  /\ delayFailed = [h \in Handlers |-> FALSE]
  /\ wroteOrder = [h \in Handlers |-> FALSE]
  /\ finishedBefore = [h \in Handlers |-> {}]
  /\ paidCount = [o \in Orders |-> 0]
  /\ webhook_secret \in BOOLEAN
  /\ signature_ok \in [Handlers -> BOOLEAN]
  /\ event_type \in [Handlers -> EventTypes]
  /\ response = [h \in Handlers |-> 0]

NextView ==
  \/ \E h \in Handlers : stripe_webhook_view(h)
  \/ \E o \in Orders : send_invoice_and_start_processing(o)

SpecView == InitView /\ [][NextView]_vars

(* ======================= properties: stock ============================= *)
AllReturned == \A p \in StockProcs : spc[p] \in {"done", "idle"}

\* the try_reserve_stock invocations on variant v
Attempts(v) == {p \in Callers : spc[p] # "idle" /\ variant_id[p] = v}

\* those that returned True
Successes(v) == {p \in Attempts(v) : reserved[p] = "reserved"}

\* no exception, no TTL expiry and no release happened
PlainRun ==
  /\ \A p \in Callers : ~raised[p]
  /\ ttlExpired = 0
  /\ \A v \in Variants : increments[v] = 0

\* C2 as stated, in its count: stock N and M >= N simultaneous attempts;
\* once all have returned, exactly N of them returned True.
C2_ExactlyNSucceed ==
  \A v \in Variants :
    (AllReturned /\ PlainRun /\ Cardinality(Attempts(v)) >= initStock[v]) =>
      Cardinality(Successes(v)) = initStock[v]

\* C2 amended: with stock N and M >= N attempts and no release, at most N
\* attempts return True; every other one returns False, with StockExhausted
\* only on an empty stock, else LockUnavailable or an error; and when no
\* exception occurs and N >= 1, at least one attempt returns True.
C2_AtMostNSucceed ==
  \A v \in Variants :
    /\ increments[v] = 0 => Cardinality(Successes(v)) <= initStock[v]
    /\ \A p \in Attempts(v) :
         /\ spc[p] = "done" =>
              reserved[p] \in {"reserved", "stock_exhausted", "lock_unavailable", "error"}
         /\ (reserved[p] = "stock_exhausted" /\ increments[v] = 0) =>
              Cardinality(Successes(v)) = initStock[v]
    /\ ( /\ \A p \in Attempts(v) : spc[p] = "done" /\ ~raised[p]
         /\ Attempts(v) # {}
         /\ initStock[v] >= 1 ) => Successes(v) # {}

\* two simultaneous attempts on a stock of two: one reserved, the other
\* turned away by the lock
C2_Witness ==
  \E v \in Variants : \E p, q \in Attempts(v) :
    /\ initStock[v] = 2 /\ PlainRun /\ AllReturned
    /\ reserved[p] = "reserved" /\ reserved[q] = "lock_unavailable"
    /\ stock[v] = 1

\* C3: no lost update: the stock of every variant is its initial stock minus
\* the committed decrements plus the committed increments, and the attempts
\* that returned True are exactly the decrements.
C3_NoLostUpdate ==
  \A v \in Variants :
    /\ stock[v] = initStock[v] - decrements[v] + increments[v]
    /\ decrements[v] = Cardinality(Successes(v))
    /\ \A p \in Attempts(v) : (spc[p] = "done" /\ raised[p]) => reserved[p] = "error"

\* a lock entry expired while its holder was inside the transaction, a
\* second attempt got the lock, and both decrements and a release landed
C3_Witness ==
  \E v \in Variants : \E p, q \in Attempts(v) :
    /\ p # q /\ ttlExpired >= 1
    /\ reserved[p] = "reserved" /\ reserved[q] = "reserved"
    /\ increments[v] = 1
    /\ AllReturned

\* C4: the stock of every variant is never negative.
C4_StockNonNegative == \A v \in Variants : stock[v] >= 0

\* the last unit was reserved while a release was in its transaction
C4_Witness ==
  \E v \in Variants : \E r \in Releasers :
    /\ stock[v] = 0 /\ decrements[v] >= 1
    /\ variant_id[r] = v /\ spc[r] = "rupdate"

\* C7 as stated: no invocation ever deletes a lock entry that holds another
\* invocation's token.
C7_ReleaseOwnerChecked == \A p \in Callers : ~removedForeign[p]

(* ======================= properties: payments ========================== *)
\* the deliveries of event id e
Deliveries(e) == {h \in Handlers : event[h].id = e}

\* the event of h names an existing order and carries its total
ValidEvent(h) ==
  /\ event[h].order_id \in Orders
  /\ event[h].amount = total_amount(event[h].order_id) 

\* the committed PaymentEvent rows of event id e
Rows(e) == {r \in paymentEvents : r.event_id = e}

\* neither delivery had returned when the other began
Concurrent(h, g) == h \notin finishedBefore[g] /\ g \notin finishedBefore[h]

Returned(h) == hpc[h] = "done"

\* C1 as stated: of two deliveries with distinct event ids and the correct
\* amount for the same order, when one performs PENDING->PAID the other is
\* rejected with InvalidTransition, records nothing and enqueues nothing.
C1_OnePaysOtherRejected ==
  \A h, g \in Handlers :
    ( /\ h # g /\ event[h].id # event[g].id
      /\ ValidEvent(h) /\ ValidEvent(g) /\ event[h].order_id = event[g].order_id
      /\ Returned(h) /\ Returned(g)
      /\ ~delayFailed[h] /\ ~delayFailed[g]
      /\ result[h] = "processed" ) =>
        /\ result[g] = "invalid_transition"
        /\ enqueued[g] = 0
        /\ Rows(event[g].id) = {}

\* C5: the same event delivered twice in sequence: the first delivery paid
\* the order and left one PROCESSED row; the second returns success
\* "already processed", writes no row, no status and enqueues nothing.
C5_RedeliveryIsNoOp ==
  \A h, g \in Handlers :
    ( /\ h \in finishedBefore[g] /\ event[h].id = event[g].id
      /\ result[h] = "processed" /\ Returned(g) ) =>
        /\ wroteOrder[h] /\ enqueued[h] = 1
        /\ result[g] = "already_processed"
        /\ ~wroteOrder[g] /\ enqueued[g] = 0
        /\ Cardinality(Rows(event[h].id)) = 1
        /\ \A r \in Rows(event[h].id) : r.status = "processed" /\ r.pk = h

C5_Witness ==
  \E h, g \in Handlers :
    /\ h \in finishedBefore[g] /\ event[h].id = event[g].id
    /\ result[h] = "processed" /\ result[g] = "already_processed"

\* both deliveries passed the pre-check on an order they read as PENDING
PassedPreCheck(h) ==
  /\ Returned(h) /\ ValidEvent(h)
  /\ result[h] \notin {"already_processed", "invalid_transition"}

\* C6: the same event id delivered concurrently, both deliveries past the
\* pre-check and no enqueue failing: exactly one of the deliveries of that
\* id paid the order, the order is PAID (or already moved on by the
\* follow-up), one row with that id exists and one follow-up was enqueued.
C6_SameEventOnce ==
  \A h, g \in Handlers :
    ( /\ h # g /\ event[h].id = event[g].id /\ Concurrent(h, g)
      /\ PassedPreCheck(h) /\ PassedPreCheck(g)
      /\ \A k \in Deliveries(event[h].id) : Returned(k) /\ ~delayFailed[k] ) =>
        LET D == Deliveries(event[h].id) IN
        /\ Cardinality({k \in D : result[k] = "processed"}) = 1
        /\ Cardinality({k \in D : wroteOrder[k]}) = 1
        /\ Cardinality({k \in D : enqueued[k] = 1}) = 1
        /\ \A k \in D : enqueued[k] <= 1
        /\ Cardinality(Rows(event[h].id)) = 1
        /\ orderStatus[event[h].order_id] \in {"paid", "processing"}
        /\ \A k \in {h, g} : result[k] \in {"processed", "integrity_error"}

C6_Witness ==
  \E h, g \in Handlers :
    /\ event[h].id = event[g].id /\ Concurrent(h, g)
    /\ result[h] = "processed" /\ result[g] = "integrity_error"
    /\ orderStatus[event[h].order_id] = "paid"
    /\ queue[event[h].order_id] = 1

\* C8 as stated: when the enqueue fails after a valid event was applied, the
\* order stays PAID, the PROCESSED row stays and the handler reports success.
C8_EnqueueFailureKeepsPayment ==
  \A h \in Handlers :
    (Returned(h) /\ delayFailed[h]) =>
      /\ accepted(result[h])
      /\ orderStatus[event[h].order_id] \in {"paid", "processing"}
      /\ \E r \in Rows(event[h].id) : r.status = "processed"

\* every delivery modelled carries a wrong amount or names no existing order
OnlyRejectable ==
  \A g \in Handlers : ~ValidEvent(g)

C10_PaidAtMostOnce == \A o \in Orders : paidCount[o] <= 1

(* ======================= properties: payments, continued =============== *)
\* C11: a delivery rejected with InvalidTransition carried a valid event for
\* an order it read as not PENDING; it left no PaymentEvent row, wrote no
\* status and enqueued nothing; and a later delivery of the same event id,
\* when no delivery of that id ever paid, is not answered "already processed".
C11_RejectedTransitionAborts ==
  \A h \in Handlers :
    result[h] = "invalid_transition" =>
      /\ ValidEvent(h) /\ order_status[h] # "pending"
      /\ ~wroteOrder[h] /\ enqueued[h] = 0
      /\ \A r \in paymentEvents : r.pk # h
      /\ \A g \in Handlers :
           ( /\ h \in finishedBefore[g] /\ event[g].id = event[h].id /\ Returned(g)
             /\ \A k \in Deliveries(event[h].id) : result[k] # "processed" ) =>
               result[g] # "already_processed"

\* the same event rejected twice in a row on an order that is not PENDING
C11_Witness ==
  \E h, g \in Handlers :
    /\ h \in finishedBefore[g] /\ event[g].id = event[h].id
    /\ result[h] = "invalid_transition" /\ result[g] = "invalid_transition"
    /\ Rows(event[h].id) = {}

\* the edges of the order state machine
LegalEdges ==
  { <<"pending", "paid">>, <<"paid", "processing">>, <<"processing", "completed">>,
    <<"pending", "cancelled">>, <<"paid", "failed">>, <<"processing", "failed">> }

\* C12 as stated: every change of a persisted order status is a legal edge.
C12_OnlyLegalEdges ==
  [][ \A o \in Orders :
        orderStatus'[o] # orderStatus[o] =>
          <<orderStatus[o], orderStatus'[o]>> \in LegalEdges ]_vars

\* C19 as stated: a follow-up is on the broker only for a transaction that
\* has committed.
C19_EnqueueAfterCommit ==
  \A h \in Handlers : enqueued[h] > 0 => wroteOrder[h]

\* C20 as stated: once every delivery has returned, the follow-ups enqueued
\* for an order are as many as the PENDING->PAID transitions applied to it,
\* at most one, and only a delivery that paid enqueued anything.
C20_OneFollowUpPerOrder ==
  (\A h \in Handlers : Returned(h)) =>
    /\ \A o \in Orders :
         /\ Cardinality({h \in Handlers : event[h].order_id = o /\ enqueued[h] = 1})
              = paidCount[o]
         /\ paidCount[o] <= 1
    /\ \A h \in Handlers : result[h] # "processed" => enqueued[h] = 0

(* ======================= properties: stock, continued ================== *)
\* C13 as stated: the stock of a variant changes only in a step that commits
\* a decrement of try_reserve_stock or an increment of release_stock, by one.
C13_StockOnlyByLedger ==
  [][ \A v \in Variants :
        stock'[v] # stock[v] =>
          stock'[v] - stock[v] =
            (increments'[v] - increments[v]) - (decrements'[v] - decrements[v]) ]_vars

\* C14: an invocation that holds the row of a variant with stock 0 leaves
\* the ledger section without returning True and without changing the stock;
\* and on a variant whose stock is 0 from the start (and that nobody
\* restocks) no attempt returns True, whether it got the lock or not, and the
\* stock stays 0.
C14_EmptyStockNeverReserved ==
  /\ [] \A v \in Variants :
          (initStock[v] = 0 /\ increments[v] = 0) =>
            /\ stock[v] = 0 /\ decrements[v] = 0
            /\ \A p \in Attempts(v) :
                 /\ reserved[p] # "reserved"
                 /\ spc[p] = "done" =>
                      reserved[p] \in {"stock_exhausted", "lock_unavailable", "error"}
  /\ [][ \A p \in Callers :
           (spc[p] = "update" /\ spc'[p] # "update" /\ stock[variant_id[p]] = 0) =>
             /\ reserved'[p] \in {"none", "stock_exhausted"}
             /\ stock'[variant_id[p]] = 0
             /\ decrements'[variant_id[p]] = decrements[variant_id[p]] ]_vars

\* one attempt got the lock and found the stock empty, another was turned
\* away by the lock
C14_Witness ==
  \E v \in Variants : \E p, q \in Attempts(v) :
    /\ initStock[v] = 0 /\ increments[v] = 0 /\ stock[v] = 0
    /\ spc[p] = "done" /\ reserved[p] = "stock_exhausted"
    /\ spc[q] = "done" /\ reserved[q] = "lock_unavailable"

\* inside the ledger section: the lock was acquired, the transaction not over
InLedger(p) == spc[p] \in {"select", "update"}

\* C15 as stated: while no lock entry has expired, at most one invocation
\* per variant is inside the ledger section.
C15_LockMutualExclusion ==
  ttlExpired = 0 =>
    \A p, q \in Callers :
      (p # q /\ variant_id[p] = variant_id[q]) => ~(InLedger(p) /\ InLedger(q))

\* C16: when an invocation has returned, no entry with its token is left.
C16_NoEntryAfterReturn ==
  \A p \in Callers :
    spc[p] = "done" => cache[variant_id[p]] # lock_id(p)

\* one invocation returned True, another returned through the except branch
C16_Witness ==
  \E p, q \in Callers :
    /\ spc[p] = "done" /\ reserved[p] = "reserved"
    /\ spc[q] = "done" /\ reserved[q] = "error"
    /\ \A v \in Variants : cache[v] = NoHolder

\* C17: an invocation that found the lock held has returned False at once:
\* it never held the lock or the row, read no stock, removed no entry and
\* committed no decrement.
C17_LockHeldReturnsAtOnce ==
  \A p \in Callers :
    reserved[p] = "lock_unavailable" =>
      /\ spc[p] = "done" /\ ~raised[p]
      /\ ~removedForeign[p]
      /\ cache[variant_id[p]] # lock_id(p)
      /\ variantRowLock[variant_id[p]] # p
      /\ lock_value[p] = NoHolder /\ variant_stock[p] = 0
      /\ decrements[variant_id[p]] =
           Cardinality({q \in Attempts(variant_id[p]) \ {p} : reserved[q] = "reserved"})

\* the holder is still in its transaction, its entry untouched
C17_Witness ==
  \E p, q \in Callers :
    /\ p # q /\ variant_id[p] = variant_id[q]
    /\ reserved[p] = "lock_unavailable"
    /\ InLedger(q) /\ cache[variant_id[q]] = lock_id(q)

\* C18: an invocation in which the ledger block raised returns False, and
\* its decrement is not in the stock: the stock is the initial one minus the
\* decrements of the invocations that did not raise, plus the increments.
C18_ExceptionLeavesStock ==
  /\ \A p \in Callers : raised[p] => reserved[p] \in {"none", "error"}
  /\ \A p \in Callers : (raised[p] /\ spc[p] = "done") => reserved[p] = "error"
  /\ \A v \in Variants :
       stock[v] = initStock[v] + increments[v]
                  - Cardinality({q \in Attempts(v) : ~raised[q] /\ reserved[q] = "reserved"})

\* the write failed on a non-empty stock, the stock is what it was
C18_Witness ==
  \E p \in Callers :
    /\ spc[p] = "done" /\ raised[p] /\ reserved[p] = "error"
    /\ initStock[variant_id[p]] > 0
    /\ stock[variant_id[p]] = initStock[variant_id[p]]
    /\ Attempts(variant_id[p]) = {p}

(* ======================= properties: the idempotency ledger ============ *)
\* C22: at most one PaymentEvent row per external event id, in every state.
C22_OneRowPerEventId ==
  \A r1, r2 \in paymentEvents : r1.event_id = r2.event_id => r1 = r2

\* two deliveries of one event id, neither returned when the other began and
\* neither stopped by the pre-check: the insert of the second was refused
C22_Witness ==
  \E h, g \in Handlers :
    /\ h # g /\ event[h].id = event[g].id /\ Concurrent(h, g)
    /\ Returned(h) /\ Returned(g)
    /\ result[h] \in {"processed", "amount_mismatch"}
    /\ result[g] \in {"integrity_error", "unhandled_integrity_error"}
    /\ Cardinality(Rows(event[h].id)) = 1

ProcessedRows(o) == {r \in paymentEvents : r.order = o /\ r.status = "processed"}

\* C27 as stated: in every committed state an order is PAID or PROCESSING
\* only if exactly one PROCESSED PaymentEvent exists for it, and a PROCESSED
\* PaymentEvent exists for an order only if the order is not PENDING.
C27_PaidIffOneProcessedRow ==
  \A o \in Orders :
    /\ orderStatus[o] \in {"paid", "processing"} => Cardinality(ProcessedRows(o)) = 1
    /\ ProcessedRows(o) # {} => orderStatus[o] # "pending"

\* C28 as stated: a delivery answered with success (processed or already
\* processed) refers to an order that has left PENDING and to an event id
\* with a PROCESSED row.
C28_SuccessMeansApplied ==
  \A h \in Handlers :
    (Returned(h) /\ accepted(result[h])) =>
      /\ orderStatus[event[h].order_id] # "pending"
      /\ \E r \in Rows(event[h].id) : r.status = "processed"

(* ======================= properties: the webhook endpoint ============== *)
\* C21 as stated: a verified payment_intent.succeeded delivery rejected for
\* AmountMismatch or InvalidTransition is answered with a 2xx status.
C21_BusinessRejectionAcknowledged ==
  \A h \in Handlers :
    ( /\ response[h] # 0
      /\ result[h] \in {"amount_mismatch", "invalid_transition"} ) =>
        response[h] \in 200..299

\* C29: a request whose signature verification fails, or that arrives when
\* no secret is configured, is answered with 400 and the handler is never
\* entered for it: it has no result, wrote no PaymentEvent and no status,
\* and enqueued nothing.
C29_UnverifiedNeverHandled ==
  \A h \in Handlers :
    (~verify_stripe_webhook_signature(h) /\ hpc[h] # "view") =>
      /\ hpc[h] = "done" /\ response[h] = HTTP_400_BAD_REQUEST
      /\ result[h] = "none" /\ finishedBefore[h] = {}
      /\ ~wroteOrder[h] /\ enqueued[h] = 0 /\ ~delayFailed[h]
      /\ \A r \in paymentEvents : r.pk # h

\* a request that failed verification was turned away although its event
\* would have paid the order
C29_Witness ==
  \E h \in Handlers :
    /\ ~verify_stripe_webhook_signature(h) /\ response[h] = HTTP_400_BAD_REQUEST
    /\ event_type[h] = "payment_intent.succeeded"
    /\ ValidEvent(h) /\ orderStatus[event[h].order_id] = "pending"
    /\ paymentEvents = {}

(* ======================= properties: order creation and release ======== *)
\* the requests whose order exists
Created(v) == {p \in Callers : variant_id[p] = v /\ orders[p] # "none"}

\* C25: an order exists only for a request whose try_reserve_stock returned
\* True, and it was created PENDING; a request whose reservation failed has
\* no order; and when every request has ended and none was lost between the
\* decrement and the creation, the orders of a variant are as many as the
\* successful reservations on it.
C25_OrderFollowsReservation ==
  /\ \A p \in Callers :
       /\ orders[p] # "none" =>
            /\ orders[p] = "pending"
            /\ spc[p] = "done" /\ reserved[p] = "reserved"
       /\ (opc[p] = "done" /\ reserved[p] # "reserved") => orders[p] = "none"
  /\ \A v \in Variants :
       (\A p \in Callers : opc[p] \in {"done", "idle"}) =>
         Cardinality(Created(v)) = Cardinality(Successes(v))

\* two requests for one variant: one got its order, the other was turned
\* away by try_reserve_stock and has none
C25_Witness ==
  \E v \in Variants : \E p, q \in Attempts(v) :
    /\ opc[p] = "done" /\ orders[p] = "pending"
    /\ opc[q] = "done" /\ reserved[q] \in {"lock_unavailable", "stock_exhausted", "error"}
    /\ orders[q] = "none"
    /\ stock[v] = initStock[v] - 1

\* C30: a release_stock invocation ends either with the stock incremented
\* by exactly one or, when it failed, with the stock unchanged, and it
\* returns normally in both cases; a successful reservation followed by a
\* release on the same variant, and nothing else on it, restores the stock.
C30_ReleaseIsInverse ==
  /\ [][ \A p \in Releasers :
           (spc[p] \in {"rselect", "rupdate"} /\ spc'[p] # spc[p] /\ spc'[p] # "rupdate") =>
             /\ spc'[p] = "done"
             /\ \/ /\ stock'[variant_id[p]] = stock[variant_id[p]] + 1
                   /\ increments'[variant_id[p]] = increments[variant_id[p]] + 1
                \/ /\ stock'[variant_id[p]] = stock[variant_id[p]]
                   /\ increments'[variant_id[p]] = increments[variant_id[p]] ]_vars
  /\ [] \A v \in Variants :
          ( /\ AllReturned
            /\ Cardinality(Attempts(v)) = 1 /\ Cardinality(Successes(v)) = 1
            /\ increments[v] = 1 ) => stock[v] = initStock[v]

\* one reservation and one release on a variant, both done, the stock back
\* at its initial value
C30_Witness ==
  \E v \in Variants : \E p \in Attempts(v) : \E r \in Releasers :
    /\ Attempts(v) = {p} /\ spc[p] = "done" /\ reserved[p] = "reserved"
    /\ variant_id[r] = v /\ spc[r] = "done" /\ increments[v] = 1
    /\ initStock[v] > 0 /\ stock[v] = initStock[v]

(* ======================= properties: progress ========================== *)
\* C23: the entry of an invocation that died holding the lock goes away,
\* after which another invocation on the same variant acquires the lock;
\* and an invocation that acquired the lock comes to its end.
C23_CrashedHolderDoesNotBlock ==
  /\ \A p \in Reservers :
       (spc[p] = "crashed" /\ cache[variant_id[p]] = lock_id(p)) ~>
         (cache[variant_id[p]] # lock_id(p))
  /\ \A p \in Reservers :
       (spc[p] = "crashed" /\ cache[variant_id[p]] = lock_id(p)) ~>
         (\E q \in Reservers \ {p} :
            variant_id[q] = variant_id[p] /\ cache[variant_id[q]] = lock_id(q))
  /\ \A q \in Reservers :
       (spc[q] = "select" /\ Crashed # {}) ~> (spc[q] \in {"done", "crashed"})

\* a holder died with its entry in the cache, the entry has expired, and
\* another invocation has reserved on the same variant since
C23_Witness ==
  \E p, q \in Reservers :
    /\ p # q /\ spc[p] = "crashed" /\ ttlExpired >= 1
    /\ spc[q] = "done" /\ reserved[q] = "reserved" /\ reserved[p] = "none"
    /\ cache[variant_id[p]] = NoHolder

\* C26: after a delivery has paid a PENDING order, the order reaches
\* PROCESSING, the worker taking every enqueued follow-up.
C26_PaidReachesProcessing ==
  \A h \in Handlers :
    (result[h] = "processed" /\ wroteOrder[h]) ~>
      (event[h].order_id \in Orders /\ orderStatus[event[h].order_id] = "processing")

\* the order was PENDING, a delivery paid it, the follow-up has run
C26_Witness ==
  \E h \in Handlers :
    /\ result[h] = "processed" /\ paidCount[event[h].order_id] = 1
    /\ paymentEvents = {PaymentEventRow(h, "processed")}
    /\ queue[event[h].order_id] = 0
    /\ orderStatus[event[h].order_id] = "processing"

(* ======================= properties: the follow-up task ================ *)
\* C31: a run whose invoice mail failed goes on to the status write: unless
\* that write itself fails it returns True with the order PROCESSING; a run
\* for an order that does not exist returns False, and its step changes no
\* order, no PaymentEvent and no queue.
C31_MailFailureStillProcesses ==
  /\ [] \A w \in Workers :
          /\ task[w].mail = "failed" => task[w].pc \in {"save", "done"}
          /\ (task[w].pc = "done" /\ task[w].mail = "failed"
                /\ task[w].error # "save_failed") =>
               /\ task[w].ret = "true"
               /\ orderStatus[task[w].order_id] = "processing"
          /\ (task[w].pc = "done" /\ task[w].order_id \notin Orders) =>
               /\ task[w].ret = "false" /\ task[w].error = "does_not_exist"
               /\ task[w].mail = "none"
  /\ [][ \A w \in Workers :
           (task[w].pc = "get" /\ task'[w].pc = "done") =>
             UNCHANGED <<orderStatus, orderRowLock, paymentEvents, queue>> ]_vars

\* one run lost its mail and still moved the order to PROCESSING, another
\* was given an order id that matches no order
C31_Witness ==
  \E w, x \in Workers :
    /\ task[w].pc = "done" /\ task[w].mail = "failed" /\ task[w].ret = "true"
    /\ task[w].order_id \in Orders /\ orderStatus[task[w].order_id] = "processing"
    /\ task[x].pc = "done" /\ task[x].order_id = "o9" /\ task[x].ret = "false"

(* ======================= properties: frames ============================ *)
\* the verified deliveries of an event type the view does not handle
OtherType(h) ==
  verify_stripe_webhook_signature(h) /\ event_type[h] # "payment_intent.succeeded"

\* C32: a verified event of a type other than payment_intent.succeeded is
\* answered with 200 in the step that routes it, a step that changes no
\* order, no PaymentEvent and no queue; the handler is never entered for it.
C32_OtherTypesAcknowledged ==
  /\ [] \A h \in Handlers :
          (OtherType(h) /\ hpc[h] # "view") =>
            /\ hpc[h] = "done" /\ response[h] = HTTP_200_OK
            /\ result[h] = "none" /\ finishedBefore[h] = {}
            /\ ~wroteOrder[h] /\ enqueued[h] = 0 /\ ~delayFailed[h]
            /\ \A r \in paymentEvents : r.pk # h
  /\ [][ \A h \in Handlers :
           (OtherType(h) /\ hpc[h] = "view" /\ hpc'[h] # "view") =>
             UNCHANGED <<orderStatus, orderRowLock, paymentEvents, queue>> ]_vars

\* a payment_failed event and an event of unknown type were both answered
\* 200, each carrying data that would have paid the PENDING order
C32_Witness ==
  \E h, g \in Handlers :
    /\ OtherType(h) /\ event_type[h] = "payment_intent.payment_failed"
    /\ OtherType(g) /\ event_type[g] = "charge.refunded"
    /\ response[h] = HTTP_200_OK /\ response[g] = HTTP_200_OK
    /\ ValidEvent(h) /\ ValidEvent(g)
    /\ orderStatus["o1"] = "pending" /\ paymentEvents = {} /\ queue["o1"] = 0

\* C33: a step of try_reserve_stock on variant v leaves the stock, the row
\* lock and the lock entry of every other variant unchanged; and when v's
\* own entry is absent the acquisition succeeds, whatever is held on the
\* other variants.
C33_IsolatedPerVariant ==
  [][ \A p \in Callers :
        spc'[p] # spc[p] =>
          /\ \A w \in Variants \ {variant_id[p]} :
               /\ stock'[w] = stock[w]
               /\ cache'[w] = cache[w]
               /\ variantRowLock'[w] = variantRowLock[w]
          /\ (spc[p] = "add" /\ cache[variant_id[p]] = NoHolder) =>
               /\ spc'[p] = "select"
               /\ cache'[variant_id[p]] = lock_id(p)
               /\ reserved'[p] = "none" ]_vars

\* the lock of one variant is held inside its transaction while a call on
\* the other variant has acquired its own lock and reserved
C33_Witness ==
  \E p, q \in Callers :
    /\ variant_id[p] # variant_id[q]
    /\ spc[p] = "update" /\ cache[variant_id[p]] = lock_id(p)
    /\ spc[q] = "finally_get" /\ reserved[q] = "reserved"
    /\ cache[variant_id[q]] = lock_id(q)

====
